---- MODULE Spec2Model ----
(***************************************************************************)
(* A model of gcp/interactive/_dataflow.py: the graph builder and the data *)
(* collector (two pipeline visitors), the local catalog with its           *)
(* list-backed sources and sinks, the two executors and the two commands.  *)
(*                                                                         *)
(* Strings the code inspects character by character (transform labels) are *)
(* sequences of one-character strings.  Python objects that are shared by  *)
(* reference (graph node dicts, lists) live in heaps: a sequence of        *)
(* objects, an object's address being its index.                           *)
(***************************************************************************)
EXTENDS Integers, Sequences, FiniteSets, TLC

\* ------------------------------------------------------------------ bounds
\* transforms visited in one traversal
MaxNodes == 3
\* nesting depth of the transforms (1: direct children of the root)
MaxDepth == 3
\* inputs of all the transforms of a pipeline together
MaxEdges == 2
\* length of the labels of the label specification
MaxLabelLen == 4
\* items of a produced collection
MaxItems == 27
\* values the data collector visits in one traversal
MaxValues == 2
\* operations of one run of the catalog specification
MaxOps == 2
\* commands and executor calls of one run of the executor specification
MaxCmds == 1
\* the item at which a pipeline run may fail
MaxFailAt == 2
\* reader and writer sessions of one run of the session specification
MaxSessions == 2
\* Write calls of one run of the session specification
MaxWrites == 3
\* _pipeline_repr_html_ calls on one pipeline
MaxRenders == 2

\* lines 38: the sample keeps the first 25 items
SampleLimit == 25

\* the label segments of the traversal, and the characters of a label
Segs == {"a", "b"}
Alphabet == {"a", "b", "/"}

VARIABLES
  \* DataflowGraphBuilder
  objs,        \* the graph node dicts, by address
  nodes,       \* self._nodes: addresses
  node_stack,  \* self._node_stack: addresses
  node_map,    \* self._node_map: label -> address
  gexc,        \* the exception a callback raised, or NoExc
  gpc,         \* "new", "visiting", "returned", "failed"
  \* the pipeline being traversed
  open,        \* labels of the composites entered and not left, root first
  visited,     \* the transform nodes handed to add_node, in visit order
  \* Python list objects, by address
  lists,
  \* DataflowDataCollector
  data,        \* self._data: label -> [count, data (address of the sample)]
  pvalues,     \* the values handed to visit_value, in visit order
  \* the interactive namespace and the DataflowLocalCatalog made last
  ns,          \* name -> value
  sources,     \* self.sources: name -> source object
  sinks,       \* self.sinks: name -> sink object
  \* the last operation and what came of it
  lastOp,      \* the operation and its arguments
  before,      \* ns and lists as they were when the operation began
  raised,      \* the exception that left the operation, or NoExc
  inner,       \* the exception raised inside a command, caught or not
  result,      \* what the operation returned: "None" or "pipeline"
  pipe,        \* the pipeline object the operation built, or NoPipeline
  stderr,      \* the messages written to sys.stderr
  log,         \* the steps of the operation, in order
  ops,         \* operations so far
  \* reader and writer sessions, and what the pipeline and the renderer saw
  sessions,    \* the Reader and Writer objects made, in order
  written,     \* list address -> the items handed to Write, in call order
  produced,    \* the items of each visited value as the pipeline made them
  pipeline,    \* the executed pipeline that is rendered: its events and values
  rendered     \* what each _pipeline_repr_html_ call embedded, in order

gvars == <<objs, nodes, node_stack, node_map, gexc, gpc, open, visited>>
dvars == <<data, pvalues>>
cvars == <<ns, sources, sinks>>
ovars == <<lastOp, before, raised, inner, result, pipe, stderr, log, ops>>
xvars == <<sessions, written, produced, pipeline, rendered>>
vars == <<gvars, lists, dvars, cvars, ovars, xvars>>

\* ----------------------------------------------------------------- helpers
NoExc == [kind |-> "none", message |-> <<>>]

Last(s) == s[Len(s)]
Front(s) == SubSeq(s, 1, Len(s) - 1)
Range(s) == {s[i] : i \in 1..Len(s)}
SeqsUpTo(S, n) == UNION {[1..k -> S] : k \in 0..n}

\* str.rfind(ch): the highest 0-based index of ch in s, -1 when absent
rfind(s, ch) ==
  LET hits == {i \in 1..Len(s) : s[i] = ch}
  IN IF hits = {} THEN -1 ELSE (CHOOSE i \in hits : \A j \in hits : j <= i) - 1

\* name[k:]: the slice from 0-based index k to the end
SliceFrom(s, k) == SubSeq(s, k + 1, Len(s))

Put(f, k, v) == [x \in DOMAIN f \cup {k} |-> IF x = k THEN v ELSE f[x]]

\* --------------------------------------------------- values and objects
Names == {"in", "out"}

\* a namespace value: not bound, None, a list (by address), anything else
Absent == [kind |-> "absent", ref |-> 0]
NoneVal == [kind |-> "None", ref |-> 0]
OtherVal == [kind |-> "other", ref |-> 0]
ListVal(a) == [kind |-> "list", ref |-> a]

\* a source object: None, a ListSource on a list, the template catalog's
\* source of a name, or what that source returned when called with the args
NoneSource == [kind |-> "None", data |-> 0, name |-> ""]
ListSource(a) == [kind |-> "ListSource", data |-> a, name |-> ""]
TemplateSource(n) == [kind |-> "Template", data |-> 0, name |-> n]
ConstructedSource(n) == [kind |-> "Constructed", data |-> 0, name |-> n]

\* a sink object: None or a ListSink on a list
NoneSink == [kind |-> "None", data |-> 0]
ListSink(a) == [kind |-> "ListSink", data |-> a]

\* a pipeline: whether the Pipeline object was made, whether steps were
\* applied to it and with which source and sink, whether run() ended
NoPipeline == [made |-> FALSE, built |-> FALSE, source |-> NoneSource,
               sink |-> NoneSink, ran |-> FALSE]
NoOp == [op |-> "none", name |-> "", arg |-> ""]

DataIdle ==
  /\ data = <<>>
  /\ pvalues = <<>>

CatalogIdle ==
  /\ lists = <<>>
  /\ ns = [n \in Names |-> Absent]
  /\ sources = <<>>
  /\ sinks = <<>>

OpsIdle ==
  /\ lastOp = NoOp
  /\ before = [ns |-> [n \in Names |-> Absent], lists |-> <<>>,
               sources |-> <<>>, sinks |-> <<>>, stderr |-> <<>>]
  /\ raised = NoExc
  /\ inner = NoExc
  /\ result = "None"
  /\ pipe = NoPipeline
  /\ stderr = <<>>
  /\ log = <<>>
  /\ ops = 0
  /\ sessions = <<>>
  /\ written = <<>>
  /\ produced = <<>>
  /\ pipeline = [events |-> <<>>, values |-> <<>>]
  /\ rendered = <<>>

\* ------------------------------------------------- DataflowGraphBuilder
\* A transform node of the pipeline: its full label and, for each of its
\* inputs, the full label of the input's producer.
TransformNode(label, inputs) == [full_label |-> label, inputs |-> inputs]

\* The builder object, as the record of its fields (objs: the dicts made).
Builder == [objs |-> objs, nodes |-> nodes, node_stack |-> node_stack,
            node_map |-> node_map, exc |-> gexc]

\* lines 57-61: the display name of a label
NodeName(label) ==
  LET slash_index == rfind(label, "/")
  IN IF slash_index > 0 THEN SliceFrom(label, slash_index + 1) ELSE label

\* lines 63-68: the new dict
GraphNode(label) ==
  [id |-> label, name |-> NodeName(label), nodes |-> <<>>, edges |-> <<>>]

\* lines 72-75 without the else branch: a node met inside a composite is
\* attached nowhere
Attach_TopLevelOnly(b, addr) ==
  IF Len(b.node_stack) = 0
  THEN [b EXCEPT !.nodes = Append(@, addr)]
  ELSE b

\* lines 72-75: the new node goes to the top-level list when no composite
\* is open, else to the children of the innermost open composite
Attach(b, addr) ==
  IF Len(b.node_stack) = 0
  THEN [b EXCEPT !.nodes = Append(@, addr)]
  ELSE [b EXCEPT !.objs[Last(b.node_stack)].nodes = Append(@, addr)]

\* lines 77-79 with the edge put on the consumer: the producer's label is
\* appended to the new node's edges
RECURSIVE ResolveEdges_Reversed(_, _, _, _)
ResolveEdges_Reversed(b, inputs, i, label) ==
  IF i > Len(inputs) THEN b
  ELSE IF inputs[i] \notin DOMAIN b.node_map
       THEN [b EXCEPT !.exc = [kind |-> "KeyError", message |-> inputs[i]]]
       ELSE ResolveEdges_Reversed(
              [b EXCEPT !.objs[b.node_map[label]].edges = Append(@, inputs[i])],
              inputs, i + 1, label)

\* lines 77-79 with self._node_map.get(...) and a test for None in the
\* place of the subscript: an input of an unknown producer is passed over
RECURSIVE ResolveEdges_SkipMissing(_, _, _, _)
ResolveEdges_SkipMissing(b, inputs, i, label) ==
  IF i > Len(inputs) THEN b
  ELSE IF inputs[i] \notin DOMAIN b.node_map
       THEN ResolveEdges_SkipMissing(b, inputs, i + 1, label)
       ELSE ResolveEdges_SkipMissing(
              [b EXCEPT !.objs[b.node_map[inputs[i]]].edges = Append(@, label)],
              inputs, i + 1, label)

\* lines 77-79: one edge per input, in order; a producer that is not in the
\* map raises KeyError and ends the loop with the edges added so far
RECURSIVE ResolveEdges(_, _, _, _)
ResolveEdges(b, inputs, i, label) ==
  IF i > Len(inputs) THEN b
  ELSE IF inputs[i] \notin DOMAIN b.node_map
       THEN [b EXCEPT !.exc = [kind |-> "KeyError", message |-> inputs[i]]]
       ELSE ResolveEdges(
              [b EXCEPT !.objs[b.node_map[inputs[i]]].edges = Append(@, label)],
              inputs, i + 1, label)

\* lines 55-81
add_node(b, transform_node) ==
  LET label == transform_node.full_label
      addr == Len(b.objs) + 1
      b1 == [b EXCEPT !.objs = Append(@, GraphNode(label)),
                      !.node_map = Put(@, label, addr)]
  IN ResolveEdges(Attach(b1, addr), transform_node.inputs, 1, label)

\* lines 83-89 without the test of the label: the root gets a node too
enter_composite_transform_RootToo(b, transform_node) ==
  LET b1 == add_node(b, transform_node)
  IN IF b1.exc # NoExc THEN b1
     ELSE [b1 EXCEPT !.node_stack = Append(@, Len(b1.objs))]

\* lines 83-89
enter_composite_transform(b, transform_node) ==
  IF Len(transform_node.full_label) = 0 THEN b
  ELSE LET b1 == add_node(b, transform_node)
       IN IF b1.exc # NoExc THEN b1
          ELSE [b1 EXCEPT !.node_stack = Append(@, Len(b1.objs))]

\* lines 91-96 without the pop
leave_composite_transform_NoPop(b, transform_node) == b

\* lines 91-96 (list.pop of an empty list raises IndexError)
leave_composite_transform(b, transform_node) ==
  IF Len(transform_node.full_label) = 0 THEN b
  ELSE IF Len(b.node_stack) = 0
       THEN [b EXCEPT !.exc = [kind |-> "IndexError", message |-> <<>>]]
       ELSE [b EXCEPT !.node_stack = Front(@)]

\* lines 98-99
visit_transform(b, transform_node) == add_node(b, transform_node)

\* The builder's fields after a callback; a raised exception ends the visit.
SetBuilder(b) ==
  /\ objs' = b.objs
  /\ nodes' = b.nodes
  /\ node_stack' = b.node_stack
  /\ node_map' = b.node_map
  /\ gexc' = b.exc
  /\ gpc' = IF b.exc # NoExc THEN "failed" ELSE "visiting"

\* ----------------------------------------- the pipeline's traversal
\* pipeline.visit(visitor) walks the transform tree depth first: it enters
\* the root composite (empty label), then for each part either visits a
\* leaf or enters a composite, walks its parts and leaves it, and at last
\* leaves the root.  A part's label is its parent's label, "/" and its own
\* segment (the segment alone under the root).
ChildLabel(parent, seg) ==
  IF parent = <<>> THEN <<seg>> ELSE parent \o <<"/">> \o <<seg>>

VisitedLabels == {visited[i].full_label : i \in 1..Len(visited)}

RECURSIVE InputCount(_)
InputCount(tns) ==
  IF tns = <<>> THEN 0 ELSE Len(tns[1].inputs) + InputCount(Tail(tns))

\* The producers a part's inputs may name: a transform visited before it
\* or (a traversal that does not keep producer-before-consumer order) one
\* not visited yet: the part itself or a sibling still to come.
Producers == VisitedLabels \cup {ChildLabel(Last(open), s) : s \in Segs}

\* The parts the traversal may come to next
NextParts ==
  {TransformNode(ChildLabel(Last(open), s), ins) :
     s \in {t \in Segs : ChildLabel(Last(open), t) \notin VisitedLabels},
     ins \in SeqsUpTo(Producers, MaxEdges - InputCount(visited))}

GraphIdle ==
  /\ objs = <<>>
  /\ nodes = <<>>
  /\ node_stack = <<>>
  /\ node_map = <<>>
  /\ gexc = NoExc
  /\ gpc = "new"
  /\ open = <<>>
  /\ visited = <<>>

GraphInit == GraphIdle /\ DataIdle /\ CatalogIdle /\ OpsIdle

\* DataflowGraphBuilder.visit calls pipeline.visit, which enters the root
EnterRoot ==
  /\ gpc = "new"
  /\ SetBuilder(enter_composite_transform(Builder, TransformNode(<<>>, <<>>)))
  /\ open' = << <<>> >>
  /\ UNCHANGED <<visited, lists, dvars, cvars, ovars, xvars>>

EnterComposite ==
  /\ gpc = "visiting" /\ open # <<>>
  /\ Len(visited) < MaxNodes /\ Len(open) < MaxDepth
  /\ \E tn \in NextParts :
       /\ SetBuilder(enter_composite_transform(Builder, tn))
       /\ open' = Append(open, tn.full_label)
       /\ visited' = Append(visited, tn)
  /\ UNCHANGED <<lists, dvars, cvars, ovars, xvars>>

VisitLeaf ==
  /\ gpc = "visiting" /\ open # <<>>
  /\ Len(visited) < MaxNodes
  /\ \E tn \in NextParts :
       /\ SetBuilder(visit_transform(Builder, tn))
       /\ visited' = Append(visited, tn)
  /\ UNCHANGED <<open, lists, dvars, cvars, ovars, xvars>>

\* leaving the innermost open composite, the root last
LeaveComposite ==
  /\ gpc = "visiting" /\ open # <<>>
  /\ SetBuilder(leave_composite_transform(Builder, TransformNode(Last(open), <<>>)))
  /\ open' = Front(open)
  /\ UNCHANGED <<visited, lists, dvars, cvars, ovars, xvars>>

\* lines 101-103: pipeline.visit is over, visit returns self._nodes
GraphReturn ==
  /\ gpc = "visiting" /\ open = <<>>
  /\ gpc' = "returned"
  /\ UNCHANGED <<objs, nodes, node_stack, node_map, gexc, open, visited>>
  /\ UNCHANGED <<lists, dvars, cvars, ovars, xvars>>

GraphNext ==
  \/ EnterRoot
  \/ EnterComposite
  \/ VisitLeaf
  \/ LeaveComposite
  \/ GraphReturn

SpecGraph == GraphInit /\ [][GraphNext]_vars

\* ------------------------------------------------ the label specification
\* add_node on one transform node of any label over the alphabet
Labels == SeqsUpTo(Alphabet, MaxLabelLen)

VisitLabel ==
  /\ gpc = "new"
  /\ \E label \in Labels :
       /\ SetBuilder(visit_transform(Builder, TransformNode(label, <<>>)))
       /\ visited' = Append(visited, TransformNode(label, <<>>))
  /\ UNCHANGED <<open, lists, dvars, cvars, ovars, xvars>>

SpecLabel == GraphInit /\ [][VisitLabel]_vars

\* ------------------------------------------------------ graph properties
\* the ids of the returned structure under the given list, parents first
RECURSIVE FlattenIds(_)
FlattenIds(addrs) ==
  IF addrs = <<>> THEN <<>>
  ELSE <<objs[addrs[1]].id>> \o FlattenIds(objs[addrs[1]].nodes)
         \o FlattenIds(Tail(addrs))

LabelsInOrder == [i \in 1..Len(visited) |-> visited[i].full_label]
IdsOf(addrs) == [i \in 1..Len(addrs) |-> objs[addrs[i]].id]

\* by the labels alone: c is p's label, "/" and one more segment
IsDirectChild(c, p) ==
  IF p = <<>> THEN c # <<>> /\ "/" \notin Range(c)
  ELSE /\ Len(c) > Len(p) + 1
       /\ SubSeq(c, 1, Len(p)) = p
       /\ c[Len(p) + 1] = "/"
       /\ "/" \notin Range(SubSeq(c, Len(p) + 2, Len(c)))

ChildrenInVisitOrder(p) ==
  SelectSeq(LabelsInOrder, LAMBDA c : IsDirectChild(c, p))

\* C1: a returned structure holds exactly one graph node per visited
\* non-root transform, counted over all nesting levels, and no two of them
\* have the same id.
C1_OneNodePerTransform ==
  gpc = "returned" =>
    LET ids == FlattenIds(nodes)
    IN /\ Len(ids) = Len(visited)
       /\ Range(ids) = VisitedLabels
       /\ Cardinality(Range(ids)) = Len(ids)

C1_Witness ==
  /\ gpc = "returned"
  /\ Len(visited) >= 3
  /\ Len(nodes) = 1
  /\ \E a \in 1..Len(objs) : objs[a].nodes # <<>> /\ a \notin Range(nodes)

\* C2: after a well-bracketed traversal the children list of every graph
\* node holds exactly the transforms whose label is a direct child path of
\* the node's label, in visit order, and the top-level list holds exactly
\* the direct children of the root.
C2_NestingMirrorsLabels ==
  gpc = "returned" =>
    /\ IdsOf(nodes) = ChildrenInVisitOrder(<<>>)
    /\ \A a \in 1..Len(objs) :
         IdsOf(objs[a].nodes) = ChildrenInVisitOrder(objs[a].id)

C2_Witness ==
  /\ gpc = "returned"
  /\ Len(nodes) = 2
  /\ \E a \in 1..Len(objs) : Len(objs[a].nodes) = 1

\* C3: after a traversal that returns, the label of C is among the edges of
\* the graph node of P exactly when some input of C was produced by P.
C3_EdgesAreInputs ==
  gpc = "returned" =>
    \A i, j \in 1..Len(visited) :
      LET P == visited[i].full_label
          C == visited[j].full_label
      IN (\E a \in 1..Len(objs) : objs[a].id = P /\ C \in Range(objs[a].edges))
           <=> P \in Range(visited[j].inputs)

C3_Witness ==
  /\ gpc = "returned"
  /\ \E i, j, k \in 1..Len(visited) :
       /\ i < j /\ k # i /\ k # j
       /\ visited[i].full_label \in Range(visited[j].inputs)
       /\ visited[k].inputs = <<>>
       /\ \A a \in 1..Len(objs) :
            objs[a].id = visited[k].full_label => objs[a].edges = <<>>

\* by the labels alone: n is what follows the final "/" of the label, the
\* whole label when it has no "/"
IsPartAfterFinalSlash(n, label) ==
  IF "/" \notin Range(label) THEN n = label
  ELSE /\ "/" \notin Range(n)
       /\ Len(n) < Len(label)
       /\ label = SubSeq(label, 1, Len(label) - Len(n) - 1) \o <<"/">> \o n

\* C8: the name of every graph node is the part of its label after the
\* final "/" (the whole label when it has none), and its id is the label.
C8_NameIsLastSegment ==
  \A a \in 1..Len(objs) :
    /\ objs[a].id = visited[a].full_label
    /\ IsPartAfterFinalSlash(objs[a].name, objs[a].id)

\* ------------------------------------------------ DataflowDataCollector
Min(a, b) == IF a < b THEN a ELSE b

\* items[:25]: a new list of the first 25 items, of all when there are fewer
Sample_OneMore(items) == SubSeq(items, 1, Min(SampleLimit + 1, Len(items)))
Sample(items) == SubSeq(items, 1, Min(SampleLimit, Len(items)))

\* A value of the pipeline: its runtime type, the list that holds its
\* realized result (what value.get() iterates) and its producer's label.
PValue(kind, ref, producer) == [kind |-> kind, ref |-> ref, producer |-> producer]

\* The collector object, as the record of its fields, with the heap
Collector == [data |-> data, lists |-> lists]

\* lines 33-41 with items = value.get() and 'data': items: the record
\* holds the realized result itself
visit_value_SharedSample(c, value, producer_node) ==
  IF value.kind = "PCollection"
  THEN LET items == c.lists[value.ref]
           collection == [count |-> Len(items), data |-> value.ref]
       IN [c EXCEPT !.data = Put(@, producer_node.full_label, collection)]
  ELSE c

\* lines 33-41.  list(value.get()) copies the result into items; items[:25]
\* is one more new list, the only one that outlives the call.
visit_value(c, value, producer_node) ==
  IF value.kind = "PCollection"
  THEN LET items == c.lists[value.ref]
           collection == [count |-> Len(items), data |-> Len(c.lists) + 1]
       IN [c EXCEPT !.lists = Append(@, Sample(items)),
                    !.data = Put(@, producer_node.full_label, collection)]
  ELSE c

\* the values of a pipeline: collections of 1, 2, ..., n and one-item
\* values of another runtime type, each produced by one of two transforms
ValueKinds == {"PCollection", "PObject"}
DataLabels == {<<"a">>, <<"b">>}
Iota(n) == [i \in 1..n |-> i]

DataInit == GraphIdle /\ DataIdle /\ CatalogIdle /\ OpsIdle

\* pipeline.visit hands the collector one more value: its realized result
\* is a list of the pipeline's own
VisitValue ==
  /\ lastOp.op # "visit_return"
  /\ Len(pvalues) < MaxValues
  /\ \E kind \in ValueKinds, producer \in DataLabels :
     \E n \in IF kind = "PCollection" THEN 0..MaxItems ELSE {1} :
       LET ref == Len(lists) + 1
           value == PValue(kind, ref, producer)
           c == visit_value([Collector EXCEPT !.lists = Append(@, Iota(n))],
                            value, TransformNode(producer, <<>>))
       IN /\ lists' = c.lists
          /\ data' = c.data
          /\ pvalues' = Append(pvalues, value)
          /\ produced' = Append(produced, Iota(n))
  /\ lastOp' = [op |-> "visit_value", name |-> "", arg |-> ""]
  /\ UNCHANGED <<gvars, cvars, before, raised, inner, result, pipe, stderr, log, ops>>
  /\ UNCHANGED <<sessions, written, pipeline, rendered>>

\* lines 43-45: pipeline.visit is over, visit returns self._data
DataReturn ==
  /\ lastOp.op # "visit_return"
  /\ lastOp' = [op |-> "visit_return", name |-> "", arg |-> ""]
  /\ UNCHANGED <<gvars, lists, dvars, cvars, xvars>>
  /\ UNCHANGED <<before, raised, inner, result, pipe, stderr, log, ops>>

DataNext ==
  \/ VisitValue
  \/ DataReturn

SpecData == DataInit /\ [][DataNext]_vars

\* ------------------------------------------------- collector properties
FirstItems(items, k) == [i \in 1..k |-> items[i]]

\* C4: the record stored for a visited collection of n items has count n
\* and as data the first min(n, 25) items in iteration order; no stored
\* data has more than 25 items.
C4_CountAndSample ==
  /\ \A l \in DOMAIN data : Len(lists[data[l].data]) <= 25
  /\ (pvalues # <<>> /\ Last(pvalues).kind = "PCollection") =>
       LET v == Last(pvalues)
           items == lists[v.ref]
           n == Len(items)
       IN /\ v.producer \in DOMAIN data
          /\ data[v.producer].count = n
          /\ lists[data[v.producer].data] = FirstItems(items, IF n < 25 THEN n ELSE 25)

C4_Witness ==
  /\ pvalues # <<>>
  /\ Last(pvalues).kind = "PCollection"
  /\ Len(lists[Last(pvalues).ref]) > 25
  /\ data[Last(pvalues).producer].count > 25
  /\ Len(lists[data[Last(pvalues).producer].data]) = 25

\* the visited values of the collection type, by their place in the visit
Collections == {i \in 1..Len(pvalues) : pvalues[i].kind = "PCollection"}

\* C12: the mapping visit returns has one entry per visited collection and
\* none for another value: its keys are the labels of the producers of the
\* collections, and under its producer's label each visited collection
\* finds its own count and sample, also when one producer yields two.
C12_EntryPerCollection ==
  lastOp.op = "visit_return" =>
    /\ DOMAIN data = {pvalues[i].producer : i \in Collections}
    /\ Cardinality(DOMAIN data) = Cardinality(Collections)
    /\ \A i \in Collections :
         LET items == lists[pvalues[i].ref]
             n == Len(items)
         IN /\ data[pvalues[i].producer].count = n
            /\ lists[data[pvalues[i].producer].data]
                 = FirstItems(items, IF n < 25 THEN n ELSE 25)

\* -------------------------------------------------- DataflowLocalCatalog
\* The objects an operation works on, as one record: the namespace, the
\* heap of lists, the catalog's two dicts, the exception being raised (an
\* operation that finds one raised does nothing more), and what an
\* executor or a command adds: the pipeline, the steps taken, the return
\* value, sys.stderr and the exception a command saw.
World == [ns |-> ns, lists |-> lists, sources |-> sources, sinks |-> sinks,
          exc |-> NoExc, pipe |-> NoPipeline, log |-> <<>>, ret |-> "None",
          stderr |-> stderr, inner |-> NoExc]

\* ns.get(name, None)
NsGet(w, name) == IF w.ns[name].kind = "absent" THEN NoneVal ELSE w.ns[name]

\* lines 122-124 with data = ns.setdefault(name, list()) in the place of
\* data = ns[name] = list()
add_sink_Reuse(w, name) ==
  IF w.ns[name].kind = "list"
  THEN [w EXCEPT !.sinks = Put(@, name, ListSink(w.ns[name].ref))]
  ELSE LET a == Len(w.lists) + 1
       IN [w EXCEPT !.lists = Append(@, <<>>), !.ns[name] = ListVal(a),
                    !.sinks = Put(@, name, ListSink(a))]

\* lines 122-124 with del ns[name][:] for a name that holds a list: the
\* list is emptied in place and handed to the sink
add_sink_ClearInPlace(w, name) ==
  IF w.ns[name].kind = "list"
  THEN [w EXCEPT !.lists[w.ns[name].ref] = <<>>,
                 !.sinks = Put(@, name, ListSink(w.ns[name].ref))]
  ELSE LET a == Len(w.lists) + 1
       IN [w EXCEPT !.lists = Append(@, <<>>), !.ns[name] = ListVal(a),
                    !.sinks = Put(@, name, ListSink(a))]

\* lines 122-124
add_sink(w, name) ==
  LET a == Len(w.lists) + 1
  IN [w EXCEPT !.lists = Append(@, <<>>),
               !.ns[name] = ListVal(a),
               !.sinks = Put(@, name, ListSink(a))]

\* lines 126-133
add_source(w, name, source) ==
  LET d == NsGet(w, name)
  IN IF d.kind # "None"
     THEN IF d.kind # "list"
          THEN [w EXCEPT !.exc = [kind |-> "TypeError",
                                  message |-> <<name, "does not represent a list">>]]
          ELSE [w EXCEPT !.sources = Put(@, name, ListSource(d.ref))]
     ELSE [w EXCEPT !.sources = Put(@, name, source)]

\* A template catalog: its source names in order, each with whether its
\* source is callable, and its sink names in order; or None.
NoCatalog == [present |-> FALSE, sources |-> <<>>, sinks |-> <<>>]
Catalog(srcs, snks) == [present |-> TRUE, sources |-> srcs, sinks |-> snks]
Decl(n, c) == [name |-> n, callable |-> c]

\* lines 113-117
RECURSIVE AddSources(_, _, _)
AddSources(w, decls, i) ==
  IF i > Len(decls) \/ w.exc # NoExc THEN w
  ELSE LET name == decls[i].name
           source == IF decls[i].callable THEN ConstructedSource(name)
                     ELSE TemplateSource(name)
       IN AddSources(add_source(w, name, source), decls, i + 1)

\* lines 119-120
RECURSIVE AddSinks(_, _, _)
AddSinks(w, names, i) ==
  IF i > Len(names) \/ w.exc # NoExc THEN w
  ELSE AddSinks(add_sink(w, names[i]), names, i + 1)

\* lines 108-120 with the sinks loop ahead of the sources loop
DataflowLocalCatalog_SinksFirst(w, catalog) ==
  LET w0 == [w EXCEPT !.sources = <<>>, !.sinks = <<>>]
  IN IF catalog.present
     THEN AddSources(AddSinks(w0, catalog.sinks, 1), catalog.sources, 1)
     ELSE w0

\* lines 108-120: DataflowLocalCatalog(catalog, ns, args)
DataflowLocalCatalog(w, catalog) ==
  LET w0 == [w EXCEPT !.sources = <<>>, !.sinks = <<>>]
  IN IF catalog.present
     THEN AddSinks(AddSources(w0, catalog.sources, 1), catalog.sinks, 1)
     ELSE w0

\* lines 176-177 with self._data.insert(0, o)
Write_AtFront(w, sink, o) == [w EXCEPT !.lists[sink.data] = <<o>> \o @]

\* lines 167-177 with self._data = list(data) in Writer.__init__: the
\* writer appends to a list of its own
Write_ToCopy(w, sink, o) == w

\* lines 162-177: ListSink.writer().Write(o)
Write(w, sink, o) == [w EXCEPT !.lists[sink.data] = Append(@, o)]

\* lines 140-155: the items ListSource.reader() iterates
ReadItems(w, source) == w.lists[source.data]

\* ---------------------------------------------- the catalog specification
Items == {1, 2}
UserLists == << <<1, 2, 3>>, <<>> >>
NsValues == {Absent, NoneVal, OtherVal} \cup {ListVal(a) : a \in 1..Len(UserLists)}
Templates ==
  { NoCatalog,
    Catalog(<<Decl("in", FALSE)>>, <<"out">>),
    Catalog(<<Decl("in", TRUE)>>, <<"in">>),
    Catalog(<<Decl("in", FALSE), Decl("out", FALSE)>>, <<"out", "in">>) }

\* the notebook's namespace before the operations: each name unbound or
\* bound to None, to a value that is no list, or to one of the user's lists
UserInit ==
  /\ lists = UserLists
  /\ ns \in [Names -> NsValues]
  /\ sources = <<>>
  /\ sinks = <<>>

Snapshot == [ns |-> ns, lists |-> lists, sources |-> sources, sinks |-> sinks,
             stderr |-> stderr]

\* the state after an operation that took World to w
Done(op, w) ==
  /\ lastOp' = op
  /\ before' = Snapshot
  /\ ns' = w.ns
  /\ lists' = w.lists
  /\ sources' = w.sources
  /\ sinks' = w.sinks
  /\ raised' = w.exc
  /\ inner' = w.inner
  /\ result' = w.ret
  /\ pipe' = w.pipe
  /\ stderr' = w.stderr
  /\ log' = w.log
  /\ ops' = ops + 1
  /\ UNCHANGED <<gvars, dvars, xvars>>

CatInit == GraphIdle /\ DataIdle /\ OpsIdle /\ UserInit

NewCatalog ==
  /\ ops < MaxOps
  /\ \E t \in Templates :
       Done([op |-> "DataflowLocalCatalog", name |-> "", arg |-> t],
            DataflowLocalCatalog(World, t))

AddSink ==
  /\ ops < MaxOps
  /\ \E name \in Names :
       Done([op |-> "add_sink", name |-> name, arg |-> ""], add_sink(World, name))

AddSource ==
  /\ ops < MaxOps
  /\ \E name \in Names :
     \E source \in {NoneSource, TemplateSource(name)} :
       Done([op |-> "add_source", name |-> name, arg |-> source],
            add_source(World, name, source))

SinkWrite ==
  /\ ops < MaxOps
  /\ \E name \in DOMAIN sinks, o \in Items :
       Done([op |-> "Write", name |-> name, arg |-> o],
            Write(World, sinks[name], o))

CatNext ==
  \/ NewCatalog
  \/ AddSink
  \/ AddSource
  \/ SinkWrite

SpecCat == CatInit /\ [][CatNext]_vars

\* ---------------------------------------------------- catalog properties
\* C5: add_sink(name, ns) leaves name bound to a new empty list, whatever
\* was bound before, and the registered sink holds that same list, so that
\* what is written through it appears in the list bound to the name.
C5_SinkRebindsFreshList ==
  /\ lastOp.op = "add_sink" =>
       LET n == lastOp.name
       IN /\ ns[n].kind = "list"
          /\ ns[n].ref \notin 1..Len(before.lists)
          /\ lists[ns[n].ref] = <<>>
          /\ n \in DOMAIN sinks
          /\ sinks[n] = ListSink(ns[n].ref)
          /\ SubSeq(lists, 1, Len(before.lists)) = before.lists
          /\ \A m \in Names \ {n} : ns[m] = before.ns[m]
  /\ lastOp.op = "Write" =>
       LET n == lastOp.name
       IN /\ ns[n].kind = "list"
          /\ lists[ns[n].ref] = Append(before.lists[ns[n].ref], lastOp.arg)

C5_Witness ==
  /\ lastOp.op = "add_sink"
  /\ before.ns[lastOp.name].kind = "list"
  /\ before.lists[before.ns[lastOp.name].ref] # <<>>
  /\ \E m \in Names \ {lastOp.name} : ns[m] = before.ns[lastOp.name]

\* C6: add_source(name, source, ns) registers a ListSource on the list
\* bound to name; with any value that is no list bound to name it raises
\* TypeError and registers nothing; with nothing bound it registers source.
C6_SourceResolution ==
  lastOp.op = "add_source" =>
    LET n == lastOp.name
        b == before.ns[n]
    IN /\ b.kind = "list" =>
            /\ raised = NoExc
            /\ sources = Put(before.sources, n, ListSource(b.ref))
       /\ b.kind \notin {"list", "absent"} =>
            /\ raised.kind = "TypeError"
            /\ sources = before.sources
       /\ b.kind = "absent" =>
            /\ raised = NoExc
            /\ sources = Put(before.sources, n, lastOp.arg)
       /\ lists = before.lists /\ ns = before.ns /\ sinks = before.sinks

\* ------------------------------------------------------------ the pipeline
\* gcp.dataflow's Pipeline with the DirectPipelineRunner, as far as the
\* executors use it: one read step, one element-wise transform (doubling),
\* at most one write step.  run() reads the source's items in order and
\* writes each transformed item through the sink's writer; a transform may
\* raise at some item, and the session may be interrupted there.
Double(x) == 2 * x
ExternalItems == <<3>>
NoName == ""

RunErrors == {"ExecutionError", "KeyboardInterrupt"}
NoFail == [at |-> 0, kind |-> "none"]
Fails == {NoFail} \cup {[at |-> k, kind |-> e] : k \in 1..MaxFailAt, e \in RunErrors}

RECURSIVE WriteAll(_, _, _, _)
WriteAll(w, sink, items, i) ==
  IF i > Len(items) THEN w
  ELSE WriteAll(Write(w, sink, items[i]), sink, items, i + 1)

\* pipeline.run(): a read step that was given no source object fails
PipelineRun(w, fail) ==
  LET src == w.pipe.source
      w0 == [w EXCEPT !.log = Append(@, "run")]
  IN IF src.kind = "None"
     THEN [w0 EXCEPT !.exc = [kind |-> "AttributeError", message |-> <<"reader">>]]
     ELSE LET items == IF src.kind = "ListSource" THEN ReadItems(w0, src)
                       ELSE ExternalItems
              failing == fail.at \in 1..Len(items)
              k == IF failing THEN fail.at - 1 ELSE Len(items)
              out == [i \in 1..k |-> Double(items[i])]
              w1 == IF w0.pipe.sink.kind = "ListSink"
                    THEN WriteAll(w0, w0.pipe.sink, out, 1) ELSE w0
          IN IF failing
             THEN [w1 EXCEPT !.exc = [kind |-> fail.kind, message |-> <<"run failed">>]]
             ELSE [w1 EXCEPT !.pipe.ran = TRUE]

\* The notebook's "dataflow" module: whether ns holds it, what it holds
\* under "dataflow"/"main", what it holds under the transform's name, and
\* the catalog attribute of the dataflow method.
MethodKinds == {"missing", "notcallable", "wrongargs", "ok"}
ClassKinds == {"missing", "notclass", "notptransform", "ptransform"}
Module(present, method, cls, catalog) ==
  [present |-> present, method |-> method, cls |-> cls, catalog |-> catalog]
Modules ==
  {Module(FALSE, "missing", "missing", NoCatalog)}
    \cup {Module(TRUE, "missing", c, NoCatalog) : c \in ClassKinds}
    \cup {Module(TRUE, m, "missing", NoCatalog) : m \in MethodKinds}
    \cup {Module(TRUE, "ok", "missing", t) : t \in Templates}

\* The user's dataflow(pipeline, catalog, args): it reads the catalog's
\* source of one name, doubles, and writes to the catalog's sink of one
\* name (or writes nothing); a name the catalog lacks raises KeyError.
Callbacks == {[reads |-> r, writes |-> x] : r \in {"in"}, x \in Names \cup {NoName}}

Callback(w, cb) ==
  LET w0 == [w EXCEPT !.log = Append(@, "callback")]
  IN IF cb.reads \notin DOMAIN w0.sources
     THEN [w0 EXCEPT !.exc = [kind |-> "KeyError", message |-> <<cb.reads>>]]
     ELSE IF cb.writes # NoName /\ cb.writes \notin DOMAIN w0.sinks
     THEN [w0 EXCEPT !.exc = [kind |-> "KeyError", message |-> <<cb.writes>>]]
     ELSE [w0 EXCEPT !.pipe = [made |-> TRUE, built |-> TRUE,
                               source |-> w0.sources[cb.reads],
                               sink |-> IF cb.writes # NoName
                                        THEN w0.sinks[cb.writes] ELSE NoneSink,
                               ran |-> FALSE]]

ConfigError(text) == [kind |-> "Exception", message |-> text]

\* ---------------------------------------------------- PTransformExecutor
\* lines 247-262
PTransformExecutor_execute(w, input_name, output_name, fail) ==
  LET w0 == [w EXCEPT !.sources = <<>>, !.sinks = <<>>]
      w1 == add_source(w0, input_name, NoneSource)
  IN IF w1.exc # NoExc THEN w1
     ELSE LET w2 == IF output_name # NoName THEN add_sink(w1, output_name) ELSE w1
              w3 == [w2 EXCEPT !.log = <<"catalog">>,
                               !.pipe = [made |-> TRUE, built |-> TRUE,
                                         source |-> w2.sources[input_name],
                                         sink |-> IF output_name # NoName
                                                  THEN w2.sinks[output_name]
                                                  ELSE NoneSink,
                                         ran |-> FALSE]]
              w4 == PipelineRun(w3, fail)
          IN IF w4.exc # NoExc THEN w4
             ELSE [w4 EXCEPT !.ret = "pipeline", !.log = Append(@, "return")]

\* lines 264-276
PTransformExecutor_from_namespace(w, mod, name) ==
  IF ~mod.present
  THEN [w EXCEPT !.exc = ConfigError(<<"A module named dataflow was not found">>)]
  ELSE IF mod.cls \in {"missing", "notclass"}
  THEN [w EXCEPT !.exc = ConfigError(<<"The dataflow module does not contain a class named", name>>)]
  ELSE IF mod.cls # "ptransform"
  THEN [w EXCEPT !.exc = ConfigError(<<"The class does not inherit from PTransform">>)]
  ELSE w

\* ------------------------------------------------------ DataflowExecutor
\* lines 212-226 (and 195: the method's catalog, None when it has none)
DataflowExecutor_from_namespace(w, mod) ==
  IF ~mod.present
  THEN [w EXCEPT !.exc = ConfigError(<<"A module named dataflow was not found">>)]
  ELSE IF mod.method # "ok"
  THEN [w EXCEPT !.exc = ConfigError(<<"The dataflow module defined does not contain a dataflow method">>)]
  ELSE w

\* lines 228-238 with pipeline.run() ahead of the user's dataflow method
DataflowExecutor_run_RunFirst(w, mod, cb, fail) ==
  LET w1 == DataflowLocalCatalog([w EXCEPT !.pipe.made = TRUE], mod.catalog)
  IN IF w1.exc # NoExc THEN w1
     ELSE LET w2 == PipelineRun([w1 EXCEPT !.log = <<"catalog">>], fail)
          IN IF w2.exc # NoExc THEN w2
             ELSE LET w3 == Callback(w2, cb)
                  IN IF w3.exc # NoExc THEN w3
                     ELSE [w3 EXCEPT !.ret = "pipeline", !.log = Append(@, "return")]

\* lines 228-238: the Pipeline object is made (231-232) before the catalog
DataflowExecutor_run(w, mod, cb, fail) ==
  LET w1 == DataflowLocalCatalog([w EXCEPT !.pipe.made = TRUE], mod.catalog)
  IN IF w1.exc # NoExc THEN w1
     ELSE LET w2 == Callback([w1 EXCEPT !.log = <<"catalog">>], cb)
          IN IF w2.exc # NoExc THEN w2
             ELSE LET w3 == PipelineRun(w2, fail)
                  IN IF w3.exc # NoExc THEN w3
                     ELSE [w3 EXCEPT !.ret = "pipeline", !.log = Append(@, "return")]

\* lines 198-210: a line the parser does not accept returns None
DataflowExecutor_execute(w, line, mod, cb, fail) ==
  IF ~line.parsed THEN w ELSE DataflowExecutor_run(w, mod, cb, fail)

\* ---------------------------------------------------------- the commands
\* the classes `except Exception` catches (KeyboardInterrupt is none)
ExceptionKinds ==
  {"Exception", "TypeError", "KeyError", "IndexError", "AttributeError",
   "ExecutionError"}

\* lines 284, 309 with `except TypeError as e`
Caught_TypeErrorOnly(e) == e.kind = "TypeError"

\* lines 284, 309: except Exception as e
Caught(e) == e.kind \in ExceptionKinds

\* lines 281-286, 305-311: the try statement around the command's body
Handle(w) ==
  IF w.exc = NoExc THEN w
  ELSE IF Caught(w.exc)
  THEN [w EXCEPT !.stderr = Append(@, w.exc.message), !.ret = "None",
                 !.inner = w.exc, !.exc = NoExc]
  ELSE [w EXCEPT !.inner = w.exc, !.ret = "None"]

\* lines 279-286
dataflow(w, line, mod, cb, fail) ==
  LET w1 == DataflowExecutor_from_namespace(w, mod)
  IN Handle(IF w1.exc # NoExc THEN w1
            ELSE DataflowExecutor_execute(w1, line, mod, cb, fail))

\* lines 289-311
ptransform(w, line, mod, fail) ==
  IF ~line.parsed THEN w
  ELSE LET w1 == PTransformExecutor_from_namespace(w, mod, line.name)
       IN Handle(IF w1.exc # NoExc THEN w1
                 ELSE PTransformExecutor_execute(w1, line.input, line.output, fail))

\* the command lines: one the parser rejects, and the accepted ones
Line(parsed, name, input, output) ==
  [parsed |-> parsed, name |-> name, input |-> input, output |-> output]
DataflowLines == {Line(FALSE, "", "", ""), Line(TRUE, "", "", "")}
PTransformLines ==
  {Line(FALSE, "", "", "")}
    \cup {Line(TRUE, "Double", i, o) : i \in Names, o \in Names \cup {NoName}}

\* --------------------------------------------- the executor specification
ExecInit == CatInit

\* PTransformExecutor(cls, ns).execute(input_name, output_name), called
\* directly: an exception it raises reaches the caller
Execute ==
  /\ ops < MaxCmds
  /\ \E i \in Names, o \in Names \cup {NoName}, fail \in Fails :
       Done([op |-> "execute", name |-> i, arg |-> o],
            PTransformExecutor_execute(World, i, o, fail))

PTransformCommand ==
  /\ ops < MaxCmds
  /\ \E line \in PTransformLines, mod \in Modules, fail \in Fails :
       Done([op |-> "ptransform", name |-> line.input, arg |-> line.output],
            ptransform(World, line, mod, fail))

DataflowCommand ==
  /\ ops < MaxCmds
  /\ \E line \in DataflowLines, mod \in Modules, cb \in Callbacks, fail \in Fails :
       Done([op |-> "dataflow", name |-> cb.reads,
             arg |-> [writes |-> cb.writes, catalog |-> mod.catalog]],
            dataflow(World, line, mod, cb, fail))

ExecNext ==
  \/ Execute
  \/ PTransformCommand
  \/ DataflowCommand

SpecExec == ExecInit /\ [][ExecNext]_vars

\* --------------------------------------------------- executor properties
\* the list of f(x) for x in L, f the doubling
MapDouble(L) == [i \in 1..Len(L) |-> 2 * L[i]]

\* C7: after an execute (directly or by the ptransform command) that
\* returns its pipeline, with input_name bound to a list L and another name
\* given as output_name, output_name is bound to the list of the doubles of
\* the items of L in order ([2,4,6] for [1,2,3]) and L is unchanged.
C7_OutputIsMappedInput ==
  ( /\ lastOp.op \in {"execute", "ptransform"}
    /\ result = "pipeline"
    /\ before.ns[lastOp.name].kind = "list"
    /\ lastOp.arg \notin {NoName, lastOp.name} ) =>
      LET L == before.lists[before.ns[lastOp.name].ref]
      IN /\ ns[lastOp.arg].kind = "list"
         /\ lists[ns[lastOp.arg].ref] = MapDouble(L)
         /\ ns[lastOp.name] = before.ns[lastOp.name]
         /\ lists[ns[lastOp.name].ref] = L

C7_Witness ==
  /\ lastOp.op = "execute"
  /\ lastOp.name = "in" /\ lastOp.arg = "out"
  /\ result = "pipeline"
  /\ before.ns["in"].kind = "list"
  /\ before.ns["out"] = before.ns["in"]
  /\ before.lists[before.ns["in"].ref] = <<1, 2, 3>>
  /\ lists[ns["out"].ref] = <<2, 4, 6>>

\* C9: whenever execute gets past the catalog setup, the source the read
\* step receives is a ListSource on the list bound to input_name.
C9_ReadGetsListSource ==
  (lastOp.op \in {"execute", "ptransform"} /\ pipe.built) =>
    /\ pipe.source.kind = "ListSource"
    /\ before.ns[lastOp.name].kind = "list"
    /\ pipe.source.data = before.ns[lastOp.name].ref

\* configuration errors (Exception), TypeError, lookup errors (KeyError)
\* and the errors of a pipeline run
NamedKinds ==
  {"Exception", "TypeError", "KeyError", "AttributeError", "ExecutionError"}

\* C10: a configuration error, TypeError, lookup error or pipeline-run
\* error raised inside the dataflow or the ptransform command does not
\* leave the command: its message is written to sys.stderr and the command
\* returns None.
C10_CommandsCatchErrors ==
  lastOp.op \in {"dataflow", "ptransform"} =>
    /\ raised.kind \notin NamedKinds
    /\ inner.kind \in NamedKinds =>
         /\ raised = NoExc
         /\ result = "None"
         /\ stderr = Append(before.stderr, inner.message)
    /\ result = "pipeline" => inner = NoExc /\ stderr = before.stderr

C10_Witness ==
  /\ lastOp.op = "ptransform"
  /\ inner.kind = "ExecutionError"
  /\ result = "None"
  /\ stderr = <<inner.message>>
  /\ lastOp.arg # NoName
  /\ lists[ns[lastOp.arg].ref] # <<>>
\* the steps of DataflowExecutor._run in the order of lines 234-238
RunSteps == <<"catalog", "callback", "run", "return">>

IsPrefix(s, t) == Len(s) <= Len(t) /\ \A i \in 1..Len(s) : s[i] = t[i]

\* the names a catalog template declares
SourceNames(catalog) ==
  IF catalog = NoCatalog THEN {}
  ELSE {catalog.sources[i].name : i \in 1..Len(catalog.sources)}
SinkNames(catalog) ==
  IF catalog = NoCatalog THEN {}
  ELSE Range(catalog.sinks)

\* C11: in DataflowExecutor._run the steps happen in the order catalog,
\* callback, run, return, each at most once: the callback starts only on a
\* catalog that holds every declared source and every declared sink (bound
\* in the namespace), the pipeline is returned only after the run ended, and
\* a step that fails is the last step.
C11_RunStepsInOrder ==
  lastOp.op = "dataflow" =>
    /\ IsPrefix(log, RunSteps)
    /\ log # <<>> =>
         /\ DOMAIN sources = SourceNames(lastOp.arg.catalog)
         /\ DOMAIN sinks = SinkNames(lastOp.arg.catalog)
         /\ \A n \in DOMAIN sinks : ns[n] = ListVal(sinks[n].data)
    /\ result = "pipeline" <=> log = RunSteps
    /\ "return" \in Range(log) => inner = NoExc /\ raised = NoExc /\ pipe.ran
    /\ inner.kind = "TypeError" => log = <<>>
    /\ inner.kind = "KeyError" => log = <<"catalog", "callback">>
    /\ (inner.kind \in RunErrors \cup {"AttributeError"}) =>
         log = <<"catalog", "callback", "run">>

C11_Witness ==
  /\ lastOp.op = "dataflow"
  /\ log = RunSteps
  /\ result = "pipeline"
  /\ Len(lastOp.arg.catalog.sinks) = 2
  /\ lists[sinks[lastOp.arg.writes].data] # <<>>
\* ------------------------------------------- more graph properties
\* C13: while a traversal goes on, the node stack holds the graph nodes of
\* the composites entered and not yet left other than the root, the
\* innermost on top; the root gets no graph node, is never pushed and its
\* leaving pops nothing; when the traversal has returned the stack is empty.
C13_StackIsOpenComposites ==
  /\ gpc = "visiting" =>
       IdsOf(node_stack) = (IF open = <<>> THEN <<>> ELSE Tail(open))
  /\ gpc = "returned" => node_stack = <<>>
  /\ \A a \in 1..Len(objs) : objs[a].id # <<>>
  /\ gexc.kind # "IndexError"

C13_Witness ==
  /\ gpc = "visiting"
  /\ Len(node_stack) = 2
  /\ Len(open) = 3
  /\ objs[node_stack[2]].id = open[3]
  /\ objs[node_stack[1]].nodes = <<node_stack[2]>>

\* the labels of the transforms visited before the i-th
VisitedBefore(i) == {visited[j].full_label : j \in 1..(i - 1)}

\* C14 as stated: a visited transform with an input whose producer was not
\* visited before it (the transform itself counts as not visited before)
\* makes the build fail with KeyError.
C14_UnvisitedProducerFails ==
  \A i \in 1..Len(visited) :
    (\E k \in 1..Len(visited[i].inputs) :
        visited[i].inputs[k] \notin VisitedBefore(i)) =>
      gpc = "failed" /\ gexc.kind = "KeyError"

\* C14, amended: a visited transform with an input whose producer is
\* neither a transform visited before it nor the transform itself makes the
\* build fail with KeyError, naming the first such producer, and the build
\* returns nothing; an input produced by the transform itself fails
\* nothing, it adds the transform's own label to its node's edges.
C14_UnregisteredProducerFails ==
  /\ \A i \in 1..Len(visited) :
       LET tn == visited[i]
           known == VisitedBefore(i) \cup {tn.full_label}
           missing == {k \in 1..Len(tn.inputs) : tn.inputs[k] \notin known}
       IN /\ missing # {} =>
               /\ gpc = "failed"
               /\ gexc.kind = "KeyError"
               /\ i = Len(visited)
               /\ \E k \in missing : /\ gexc.message = tn.inputs[k]
                                      /\ \A m \in missing : k <= m
          /\ (missing = {} /\ tn.full_label \in Range(tn.inputs)) =>
               \E a \in 1..Len(objs) : /\ objs[a].id = tn.full_label
                                        /\ tn.full_label \in Range(objs[a].edges)
  /\ gpc = "failed" =>
       \E k \in 1..Len(Last(visited).inputs) :
         Last(visited).inputs[k]
           \notin VisitedBefore(Len(visited)) \cup {Last(visited).full_label}

C14_Witness ==
  /\ gpc = "failed"
  /\ gexc.kind = "KeyError"
  /\ Len(visited) = 2
  /\ visited[1].inputs = <<visited[1].full_label>>
  /\ Len(visited[2].inputs) = 1
  /\ gexc.message \notin {visited[1].full_label, visited[2].full_label}

\* C15: no node's edges hold the same consumer id twice.
C15_EdgesAreASet ==
  \A a \in 1..Len(objs) :
    \A i, j \in 1..Len(objs[a].edges) :
      objs[a].edges[i] = objs[a].edges[j] => i = j
\* ---------------------------------------------- the session specification
\* Reader and Writer objects of the sources and sinks of one catalog: made
\* by reader() and writer() and entered, written through, left.
Session(kind, a) == [kind |-> kind, data |-> a, open |-> TRUE]

RECURSIVE SumLen(_, _)
SumLen(f, S) ==
  IF S = {} THEN 0
  ELSE LET a == CHOOSE x \in S : TRUE IN Len(f[a]) + SumLen(f, S \ {a})

\* a catalog made from a template in a namespace where "in" is one of the
\* user's lists and "out" is unbound or the same list
SessionInit ==
  /\ GraphIdle /\ DataIdle
  /\ \E t \in Templates \ {NoCatalog}, out \in {Absent, ListVal(1)} :
       LET w0 == [ns |-> [n \in Names |-> IF n = "in" THEN ListVal(1) ELSE out],
                  lists |-> UserLists, sources |-> <<>>, sinks |-> <<>>,
                  exc |-> NoExc, pipe |-> NoPipeline, log |-> <<>>,
                  ret |-> "None", stderr |-> <<>>, inner |-> NoExc]
           w == DataflowLocalCatalog(w0, t)
       IN /\ ns = w.ns /\ lists = w.lists
          /\ sources = w.sources /\ sinks = w.sinks
          /\ before = [ns |-> w0.ns, lists |-> w0.lists, sources |-> <<>>,
                       sinks |-> <<>>, stderr |-> <<>>]
          /\ lastOp = [op |-> "DataflowLocalCatalog", name |-> "", arg |-> t]
          /\ written = [a \in {w.sinks[n].data : n \in DOMAIN w.sinks} |-> <<>>]
  /\ raised = NoExc /\ inner = NoExc /\ result = "None" /\ pipe = NoPipeline
  /\ stderr = <<>> /\ log = <<>> /\ ops = 0
  /\ sessions = <<>> /\ produced = <<>> /\ rendered = <<>>
  /\ pipeline = [events |-> <<>>, values |-> <<>>]

\* what a session step leaves alone
SessionFrame ==
  UNCHANGED <<gvars, dvars, ns, sources, sinks, raised, inner, result, pipe,
              stderr, log, ops, produced, pipeline, rendered>>

\* lines 162-171: with sink.writer() as writer
OpenWriter ==
  /\ Len(sessions) < MaxSessions
  /\ \E n \in DOMAIN sinks :
       /\ sessions' = Append(sessions, Session("Writer", sinks[n].data))
       /\ lastOp' = [op |-> "writer", name |-> n, arg |-> ""]
  /\ before' = Snapshot
  /\ UNCHANGED <<lists, written>>
  /\ SessionFrame

\* lines 140-149: with source.reader() as reader
OpenReader ==
  /\ Len(sessions) < MaxSessions
  /\ \E n \in DOMAIN sources :
       /\ sources[n].kind = "ListSource"
       /\ sessions' = Append(sessions, Session("Reader", sources[n].data))
       /\ lastOp' = [op |-> "reader", name |-> n, arg |-> ""]
  /\ before' = Snapshot
  /\ UNCHANGED <<lists, written>>
  /\ SessionFrame

\* lines 151-152, 173-174: __exit__ of a Reader or a Writer
CloseSession ==
  /\ \E i \in 1..Len(sessions) :
       /\ sessions[i].open
       /\ sessions' = [sessions EXCEPT ![i].open = FALSE]
       /\ lastOp' = [op |-> "exit", name |-> "", arg |-> i]
  /\ before' = Snapshot
  /\ UNCHANGED <<lists, written>>
  /\ SessionFrame

\* lines 176-177: writer.Write(o), on a Writer entered or left (__exit__
\* closes nothing)
WriterWrite ==
  /\ SumLen(written, DOMAIN written) < MaxWrites
  /\ \E i \in 1..Len(sessions), o \in Items :
       /\ sessions[i].kind = "Writer"
       /\ lists' = Write(World, ListSink(sessions[i].data), o).lists
       /\ written' = [written EXCEPT ![sessions[i].data] = Append(@, o)]
       /\ lastOp' = [op |-> "Write", name |-> "", arg |-> i]
  /\ before' = Snapshot
  /\ UNCHANGED sessions
  /\ SessionFrame

SessionNext ==
  \/ OpenWriter
  \/ OpenReader
  \/ CloseSession
  \/ WriterWrite

SpecSession == SessionInit /\ [][SessionNext]_vars

\* C16: whatever Write calls were made through whatever writers of a
\* list-backed sink, entered or left, the list the sink's name was bound to
\* at its creation holds exactly the items written, in call order; making,
\* entering or leaving a reader or a writer changes no list and no binding.
C16_SinkListIsWhatWasWritten ==
  /\ \A n \in DOMAIN sinks :
       /\ ns[n] = ListVal(sinks[n].data)
       /\ lists[sinks[n].data] = written[sinks[n].data]
  /\ lastOp.op \in {"writer", "reader", "exit"} =>
       /\ lists = before.lists /\ ns = before.ns
       /\ sources = before.sources /\ sinks = before.sinks
  /\ lastOp.op = "Write" =>
       \A a \in 1..Len(lists) :
         a # sessions[lastOp.arg].data => lists[a] = before.lists[a]

C16_Witness ==
  \E i, j \in 1..Len(sessions) :
    /\ i # j
    /\ sessions[i].kind = "Writer" /\ sessions[j].kind = "Writer"
    /\ sessions[i].data = sessions[j].data
    /\ ~sessions[i].open /\ sessions[j].open
    /\ lastOp = [op |-> "Write", name |-> "", arg |-> i]
    /\ lists[sessions[i].data] = <<2, 1, 2>>
\* ----------------------------------------------- the sample specification
\* After visit has returned, the holder of the mapping changes one stored
\* sample in place: clears it or puts an item in front.
SampleChange ==
  /\ lastOp = [op |-> "visit_return", name |-> "", arg |-> ""]
  /\ \E l \in DOMAIN data :
     \E s \in {<<>>, <<0>> \o lists[data[l].data]} :
       /\ lists' = [lists EXCEPT ![data[l].data] = s]
       /\ lastOp' = [op |-> "visit_return", name |-> "sample_changed", arg |-> l]
  /\ UNCHANGED <<gvars, dvars, cvars, xvars>>
  /\ UNCHANGED <<before, raised, inner, result, pipe, stderr, log, ops>>

SampleNext ==
  \/ VisitValue
  \/ DataReturn
  \/ SampleChange

SpecSample == DataInit /\ [][SampleNext]_vars

\* C17: every visited value's realized result holds the items the pipeline
\* produced, after the visits and after a later change of a stored sample;
\* no stored sample is the list of a visited value.
C17_CollectionsUnchanged ==
  \A i \in 1..Len(pvalues) :
    /\ lists[pvalues[i].ref] = produced[i]
    /\ \A l \in DOMAIN data : data[l].data # pvalues[i].ref

C17_Witness ==
  /\ lastOp.op = "visit_return" /\ lastOp.name = "sample_changed"
  /\ \E i \in 1..Len(pvalues) :
       /\ pvalues[i].kind = "PCollection"
       /\ pvalues[i].producer = lastOp.arg
       /\ Len(produced[i]) = 2
       /\ data[lastOp.arg].count = 2
       /\ lists[data[lastOp.arg].data] = <<0, 1, 2>>
       /\ lists[pvalues[i].ref] = <<1, 2>>
\* ------------------------------------------- more executor properties
\* the names the last operation used both as a source and as a sink, with
\* a list bound to them before, in a catalog that was made in full
SourceAndSinkNames ==
  IF lastOp.op \in {"execute", "ptransform"}
  THEN {n \in Names : /\ pipe.built
                      /\ lastOp.name = n /\ lastOp.arg = n
                      /\ before.ns[n].kind = "list"}
  ELSE IF lastOp.op = "dataflow"
  THEN {n \in Names : /\ log # <<>>
                      /\ n \in SourceNames(lastOp.arg.catalog)
                      /\ n \in SinkNames(lastOp.arg.catalog)
                      /\ before.ns[n].kind = "list"}
  ELSE {}

\* C18: for a name used as source and as sink, with a list bound to it
\* before, the source is a ListSource on that list and reads the items the
\* list had before, the name is bound to a new list that the sink writes
\* to, and the list bound before keeps its items whatever the run wrote.
C18_SourceKeepsOldList ==
  \A n \in SourceAndSinkNames :
    LET old == before.ns[n].ref
    IN /\ sources[n] = ListSource(old)
       /\ ReadItems(World, sources[n]) = before.lists[old]
       /\ lists[old] = before.lists[old]
       /\ sinks[n].kind = "ListSink"
       /\ sinks[n].data \notin 1..Len(before.lists)
       /\ ns[n] = ListVal(sinks[n].data)
       /\ (result = "pipeline" /\ pipe.sink = sinks[n]
             /\ pipe.source = sources[n]) =>
            lists[sinks[n].data] = MapDouble(before.lists[old])

C18_Witness ==
  /\ lastOp.op = "execute"
  /\ lastOp.name = "in" /\ lastOp.arg = "in"
  /\ SourceAndSinkNames = {"in"}
  /\ result = "pipeline"
  /\ before.lists[before.ns["in"].ref] = <<1, 2, 3>>
  /\ lists[before.ns["in"].ref] = <<1, 2, 3>>
  /\ lists[ns["in"].ref] = <<2, 4, 6>>
\* C19: when the making of the catalog raises TypeError (a source's name
\* holds a value that is no list), every name holds what it held before, no
\* list was made or changed, no sink is registered, no step was applied to
\* a pipeline, no callback called and nothing run or returned; execute has
\* not made its Pipeline object yet (_run has made one, still empty).
C19_TypeErrorLeavesNamespace ==
  (lastOp.op \in {"execute", "ptransform", "dataflow"}
     /\ (raised.kind = "TypeError" \/ inner.kind = "TypeError")) =>
    /\ ns = before.ns
    /\ lists = before.lists
    /\ sinks = <<>>
    /\ ~pipe.built /\ ~pipe.ran
    /\ pipe.made <=> lastOp.op = "dataflow"
    /\ log = <<>>
    /\ result = "None"

C19_Witness ==
  /\ lastOp.op = "dataflow"
  /\ inner.kind = "TypeError"
  /\ lastOp.arg.catalog.sinks = <<"out", "in">>
  /\ before.ns["in"].kind = "list"
  /\ before.ns["out"].kind = "other"
  /\ before.lists[before.ns["in"].ref] # <<>>
  /\ ns = before.ns
\* ----------------------------------------------- the render specification
\* lines 50-53 with the three containers as attributes of the class: every
\* builder works on the containers of the builders before it
DataflowGraphBuilder_Shared == Builder

\* lines 50-53: DataflowGraphBuilder()
DataflowGraphBuilder ==
  [objs |-> <<>>, nodes |-> <<>>, node_stack |-> <<>>, node_map |-> <<>>,
   exc |-> NoExc]

\* lines 30-31: DataflowDataCollector()
DataflowDataCollector == [data |-> <<>>, lists |-> lists]

\* the events of pipeline.visit on a transform tree
Event(ev, label, inputs) == [ev |-> ev, node |-> TransformNode(label, inputs)]

\* lines 101-103: pipeline.visit(self) calls the builder back event by
\* event; an exception of a callback ends the traversal
RECURSIVE Traverse(_, _, _)
Traverse(b, events, i) ==
  IF i > Len(events) \/ b.exc # NoExc THEN b
  ELSE LET e == events[i]
           b1 == IF e.ev = "enter" THEN enter_composite_transform(b, e.node)
                 ELSE IF e.ev = "leave" THEN leave_composite_transform(b, e.node)
                 ELSE visit_transform(b, e.node)
       IN Traverse(b1, events, i + 1)

\* lines 43-45: pipeline.visit(self) hands the collector value by value
RECURSIVE Collect(_, _, _)
Collect(c, values, i) ==
  IF i > Len(values) THEN c
  ELSE Collect(visit_value(c, values[i], TransformNode(values[i].producer, <<>>)),
               values, i + 1)

\* line 315: json.dumps of the node list: every dict written out with its
\* children in place
RECURSIVE JsonNode(_, _)
JsonNode(b, a) ==
  [id |-> b.objs[a].id, name |-> b.objs[a].name,
   nodes |-> [k \in 1..Len(b.objs[a].nodes) |-> JsonNode(b, b.objs[a].nodes[k])],
   edges |-> b.objs[a].edges]
JsonGraph(b) == [k \in 1..Len(b.nodes) |-> JsonNode(b, b.nodes[k])]

\* line 316: json.dumps of the sample map: every record written out with
\* the items of its sample
JsonData(c) ==
  [l \in DOMAIN c.data |->
     [count |-> c.data[l].count, data |-> c.lists[c.data[l].data]]]

\* the transform trees rendered: two leaves, a composite of two leaves
\* before a leaf, a leaf with two inputs of one producer, one leaf
Shapes ==
  { << Event("leaf", <<"a">>, <<>>), Event("leaf", <<"b">>, << <<"a">> >>) >>,
    << Event("enter", <<"a">>, <<>>),
       Event("leaf", <<"a", "/", "a">>, <<>>),
       Event("leaf", <<"a", "/", "b">>, << <<"a", "/", "a">> >>),
       Event("leave", <<"a">>, <<>>),
       Event("leaf", <<"b">>, << <<"a", "/", "b">> >>) >>,
    << Event("leaf", <<"a">>, <<>>),
       Event("leaf", <<"b">>, << <<"a">>, <<"a">> >>) >>,
    << Event("leaf", <<"a">>, <<>>) >> }

\* the labels of the leaves of a tree, in visit order
LeafLabels(events) ==
  LET leaves == SelectSeq(events, LAMBDA e : e.ev = "leaf")
  IN [k \in 1..Len(leaves) |-> leaves[k].node.full_label]

\* An executed pipeline: the root around one of the trees; its first leaf
\* produced a collection of 0..MaxItems items and a value of another type,
\* every other leaf a collection of two items.
RenderInit ==
  /\ GraphIdle /\ DataIdle
  /\ ns = [n \in Names |-> Absent] /\ sources = <<>> /\ sinks = <<>>
  /\ lastOp = NoOp
  /\ before = [ns |-> [n \in Names |-> Absent], lists |-> <<>>,
               sources |-> <<>>, sinks |-> <<>>, stderr |-> <<>>]
  /\ raised = NoExc /\ inner = NoExc /\ result = "None" /\ pipe = NoPipeline
  /\ stderr = <<>> /\ log = <<>> /\ ops = 0
  /\ sessions = <<>> /\ written = <<>> /\ rendered = <<>>
  /\ \E shape \in Shapes, n \in 0..MaxItems :
       LET leaves == LeafLabels(shape)
           k == Len(leaves)
       IN /\ pipeline =
               [events |-> << Event("enter", <<>>, <<>>) >> \o shape
                             \o << Event("leave", <<>>, <<>>) >>,
                values |-> [i \in 1..(k + 1) |->
                              IF i <= k THEN PValue("PCollection", i, leaves[i])
                              ELSE PValue("PObject", i, leaves[1])]]
          /\ lists = [i \in 1..(k + 1) |->
                        IF i = 1 THEN Iota(n) ELSE IF i <= k THEN Iota(2) ELSE Iota(1)]
          /\ produced = lists

\* lines 314-332: _pipeline_repr_html_(pipeline): a new builder and a new
\* collector traverse the pipeline, and what they return is written into
\* the script of the markup
Render ==
  /\ Len(rendered) < MaxRenders
  /\ raised = NoExc
  /\ LET b == Traverse(DataflowGraphBuilder, pipeline.events, 1)
         c == Collect(DataflowDataCollector, pipeline.values, 1)
     IN /\ objs' = b.objs /\ nodes' = b.nodes /\ node_stack' = b.node_stack
        /\ node_map' = b.node_map /\ gexc' = b.exc
        /\ gpc' = IF b.exc # NoExc THEN "failed" ELSE "returned"
        /\ raised' = b.exc
        /\ IF b.exc # NoExc
           THEN UNCHANGED <<lists, data, rendered>>
           ELSE /\ lists' = c.lists
                /\ data' = c.data
                /\ rendered' = Append(rendered, [graph |-> JsonGraph(b),
                                                 data |-> JsonData(c)])
  /\ lastOp' = [op |-> "_pipeline_repr_html_", name |-> "", arg |-> ""]
  /\ UNCHANGED <<open, visited, pvalues, cvars, before, inner, result, pipe,
                 stderr, log, ops, sessions, written, produced, pipeline>>

SpecRender == RenderInit /\ [][Render]_vars

\* the nodes of a written-out graph, parents first
RECURSIVE JsonIds(_)
JsonIds(jnodes) ==
  IF jnodes = <<>> THEN <<>>
  ELSE <<jnodes[1].id>> \o JsonIds(jnodes[1].nodes) \o JsonIds(Tail(jnodes))

\* the labels of the transforms of the rendered pipeline, in visit order
TransformLabels ==
  LET es == SelectSeq(pipeline.events,
                      LAMBDA e : e.ev # "leave" /\ e.node.full_label # <<>>)
  IN [k \in 1..Len(es) |-> es[k].node.full_label]

\* C20: every rendering of one executed pipeline embeds the same graph and
\* the same sample map: the graph has each transform of the pipeline once,
\* in visit order, the values of the pipeline keep their items, and what a
\* builder or a collector of an earlier call held is in no later result.
C20_RenderingIsRepeatable ==
  /\ \A i, j \in 1..Len(rendered) : rendered[i] = rendered[j]
  /\ \A i \in 1..Len(rendered) :
       JsonIds(rendered[i].graph) = TransformLabels
  /\ \A k \in 1..Len(pipeline.values) : lists[pipeline.values[k].ref] = produced[k]

C20_Witness ==
  /\ Len(rendered) = 2
  /\ Len(rendered[2].graph) = 2
  /\ Len(rendered[2].graph[1].nodes) = 2
  /\ rendered[2].data[<<"a", "/", "a">>].count = 26
  /\ Len(rendered[2].data[<<"a", "/", "a">>].data) = 25
  /\ rendered[1] = rendered[2]
====
